---- MODULE Spec2Model ----
(***************************************************************************)
(* Mindfit: the study and wellness analytics of utils.py over the record   *)
(* store of models.py.                                                     *)
(*                                                                         *)
(* Time is counted in ticks, TicksPerDay of them to a calendar day; a      *)
(* datetime is a tick number, a calendar date (func.date, strftime         *)
(* '%Y-%m-%d') is the day number of the tick.  Numbers the code computes   *)
(* with / are exact rationals [n, d]; round(x, k) is modelled on them.     *)
(* SQL aggregates (SUM, AVG, COUNT DISTINCT) return exact values; `engine` *)
(* in utils.py is the application's database and the application clock,    *)
(* the database clock and utcnow() are one clock.  The names a handler of  *)
(* app.py uses are bound to what they name: the functions of utils.py,     *)
(* session['user_id'] the logged-in user, and duration_minutes the         *)
(* duration column of a study session.                                     *)
(***************************************************************************)
EXTENDS Integers, Sequences, FiniteSets, TLC

VARIABLES now, sessions, wellness, next_session_id, next_wellness_id, res

vars == <<now, sessions, wellness, next_session_id, next_wellness_id, res>>

(***************************************************************************)
(* Bounds of the model.                                                    *)
(***************************************************************************)
TicksPerDay == 2
MaxTime == 2
MaxRecords == 3
MaxDays == 2
MaxWeekDay == 7
MaxRecHistory == 6
MaxLogged == 2
MaxWait == 2
MaxWrites == 1
MaxSessions == 2

\* the forms the users submit: <<user, subject, duration in minutes>>
StudyForms == {<<1, "math", 30>>, <<1, "history", 90>>, <<2, "math", 90>>}
\* the wellness entries written: <<user, stress_level, energy_level>>
WellnessForms == {<<1, 7, 4>>, <<1, 8, 9>>}
Users == {1, 2}
DaysArgs == (0 - 1)..MaxDays

\* Python None / SQL NULL: no number
NULL == [n |-> 0, d |-> 0]

(***************************************************************************)
(* Exact rational arithmetic for Python's / on numbers.                    *)
(***************************************************************************)
Abs(x) == IF x < 0 THEN 0 - x ELSE x

RECURSIVE GCD(_, _)
GCD(a, b) == IF b = 0 THEN a ELSE GCD(b, a % b)

Rat(n, d) ==
    LET g == GCD(Abs(n), d)
    IN  [n |-> n \div g, d |-> d \div g]

RInt(k) == [n |-> k, d |-> 1]
Zero == RInt(0)

RAdd(a, b) == Rat(a.n * b.d + b.n * a.d, a.d * b.d)
RSub(a, b) == Rat(a.n * b.d - b.n * a.d, a.d * b.d)
RMul(a, b) == Rat(a.n * b.n, a.d * b.d)
RDivInt(a, k) == Rat(a.n, a.d * k)
RLt(a, b) == a.n * b.d < b.n * a.d
RLe(a, b) == a.n * b.d <= b.n * a.d
RMin(a, b) == IF RLt(b, a) THEN b ELSE a
RMax(a, b) == IF RLt(a, b) THEN b ELSE a

RECURSIVE Pow10(_)
Pow10(k) == IF k = 0 THEN 1 ELSE 10 * Pow10(k - 1)

\* round(x, k): to k decimals, a tie going to the even digit.
Round(x, k) ==
    LET s == Pow10(k)
        q == (x.n * s) \div x.d
        r == (x.n * s) - q * x.d
        up == \/ 2 * r > x.d
              \/ 2 * r = x.d /\ q % 2 = 1
    IN  Rat(IF up THEN q + 1 ELSE q, s)

RECURSIVE RSumSeq(_)
RSumSeq(s) == IF s = <<>> THEN Zero ELSE RAdd(Head(s), RSumSeq(Tail(s)))

(***************************************************************************)
(* Calendar.                                                               *)
(***************************************************************************)
\* func.date(created_at), datetime.strftime('%Y-%m-%d'): the calendar day
DateOf(t) == t \div TicksPerDay

\* timedelta(days=k)
DaysDelta(k) == k * TicksPerDay

(***************************************************************************)
(* Sentiment of the notes of a study session.                              *)
(***************************************************************************)
RNeg(a) == [n |-> 0 - a.n, d |-> a.d]

\* what the classifier does when it is asked: sentiment_analyzer is None,
\* the call raises, or it returns [{label, score}] with score its confidence
Unavailable == [kind |-> "unavailable", label |-> "", score |-> NULL]
Raises == [kind |-> "raises", label |-> "", score |-> NULL]
Returns(label, score) == [kind |-> "returns", label |-> label, score |-> score]

Labels == {"POSITIVE", "NEGATIVE", "OTHER"}
Confidences == {Rat(9, 10), Rat(6, 10)}
ClassifierOutcomes ==
    {Unavailable, Raises} \cup {Returns(l, c) : l \in Labels, c \in Confidences}

NeutralSentiment == [label |-> "NEUTRAL", score |-> Rat(1, 2)]

\* analyze_sentiment(text): the dictionary returned, and whether the
\* classifier was called
analyze_sentiment(text, cls) ==
    IF text = "" \/ cls.kind = "unavailable"
    THEN [sentiment |-> NeutralSentiment, invoked |-> FALSE]
    ELSE IF cls.kind = "raises"
    THEN [sentiment |-> NeutralSentiment, invoked |-> TRUE]
    ELSE [sentiment |->
             [label |-> cls.label,
              score |-> IF cls.label = "POSITIVE"
                        THEN cls.score
                        ELSE RSub(RInt(1), cls.score)],
          invoked |-> TRUE]

\* sentiment['score'] if sentiment['label'] == 'POSITIVE' else -sentiment['score']
SignedScore(sentiment) ==
    IF sentiment.label = "POSITIVE"
    THEN sentiment.score
    ELSE RNeg(sentiment.score)

\* request.form.get(name, '').strip()
Absent == "<absent>"
Blank == {"", "  "}
FormText(raw) ==
    LET value == IF raw = Absent THEN "" ELSE raw
    IN  IF value \in Blank THEN "" ELSE value

(***************************************************************************)
(* The record store: the tables study_sessions and wellness_entries.       *)
(***************************************************************************)
StudySession(id, u, subj, dur, score, at) ==
    [id |-> id, user_id |-> u, subject |-> subj, duration |-> dur,
     sentiment_score |-> score, created_at |-> at]

WellnessEntry(id, u, stress, energy, at) ==
    [id |-> id, user_id |-> u, stress_level |-> stress, energy_level |-> energy,
     created_at |-> at]

NoResult == [op |-> "none"]

Init ==
    /\ now = 0
    /\ sessions = {}
    /\ wellness = {}
    /\ next_session_id = 1
    /\ next_wellness_id = 1
    /\ res = NoResult

\* new_study_session: a valid form without notes is stored with the
\* database's now()
LogStudy(u, subj, dur) ==
    /\ subj # ""
    /\ dur > 0
    /\ sessions' = sessions \cup
          {StudySession(next_session_id, u, subj, dur,
                        SignedScore(NeutralSentiment), now)}
    /\ next_session_id' = next_session_id + 1
    /\ res' = NoResult
    /\ UNCHANGED <<now, wellness, next_wellness_id>>

\* new_study_session, the whole POST handler: the form is validated, the
\* notes are analysed, the session is stored; res is what the request did
new_study_session(u, subject_raw, duration, notes_raw, cls) ==
    LET subject == FormText(subject_raw)
        notes == FormText(notes_raw)
        analysis == IF notes # ""
                    THEN analyze_sentiment(notes, cls)
                    ELSE [sentiment |-> NeutralSentiment, invoked |-> FALSE]
        stored == ~(subject = "" \/ duration <= 0)
        row == StudySession(next_session_id, u, subject, duration,
                            SignedScore(analysis.sentiment), now)
    IN  /\ res' = [op |-> "new_study_session", user_id |-> u,
                   subject |-> subject, duration |-> duration,
                   notes |-> notes, cls |-> cls, stored |-> stored,
                   invoked |-> stored /\ analysis.invoked,
                   id |-> IF stored THEN next_session_id ELSE 0]
        /\ IF stored
           THEN /\ sessions' = sessions \cup {row}
                /\ next_session_id' = next_session_id + 1
           ELSE UNCHANGED <<sessions, next_session_id>>
        /\ UNCHANGED <<now, wellness, next_wellness_id>>

\* a wellness entry written by the store's owner, on the 1-10 scales
LogWellness(u, stress, energy) ==
    /\ wellness' = wellness \cup {WellnessEntry(next_wellness_id, u, stress, energy, now)}
    /\ next_wellness_id' = next_wellness_id + 1
    /\ res' = NoResult
    /\ UNCHANGED <<now, sessions, next_session_id>>

\* the clock advances
Tick(dt) ==
    /\ now' = now + dt
    /\ res' = NoResult
    /\ UNCHANGED <<sessions, wellness, next_session_id, next_wellness_id>>

(***************************************************************************)
(* SQL aggregates over sets of rows.                                       *)
(***************************************************************************)
RECURSIVE SumDuration(_)
SumDuration(S) ==
    IF S = {} THEN 0
    ELSE LET x == CHOOSE y \in S : TRUE
         IN  x.duration + SumDuration(S \ {x})

RECURSIVE SumStress(_)
SumStress(S) ==
    IF S = {} THEN 0
    ELSE LET x == CHOOSE y \in S : TRUE
         IN  x.stress_level + SumStress(S \ {x})

RECURSIVE SumEnergy(_)
SumEnergy(S) ==
    IF S = {} THEN 0
    ELSE LET x == CHOOSE y \in S : TRUE
         IN  x.energy_level + SumEnergy(S \ {x})

\* func.avg over a non-empty group
AvgStress(S) == Rat(SumStress(S), Cardinality(S))
AvgEnergy(S) == Rat(SumEnergy(S), Cardinality(S))

CreatedDates(S) == {DateOf(r.created_at) : r \in S}
OnDate(S, d) == {r \in S : DateOf(r.created_at) = d}

(***************************************************************************)
(* get_study_analytics(user_id, days)                                      *)
(***************************************************************************)
\* faulty variant: the window starts one day early
StartDate_m(end_date, days) == end_date - DaysDelta(days)

\* start_date = end_date - timedelta(days=days-1)
StartDate(end_date, days) == end_date - DaysDelta(days - 1)

\* the filter of the three queries: user_id, start_date <= created_at <= end_date
InRange(S, u, start_date, end_date) ==
    {r \in S : /\ r.user_id = u
                /\ r.created_at >= start_date
                /\ r.created_at <= end_date}

\* daily_data: per date of the filtered sessions, SUM(duration)
DailyData(u, start_date, end_date) ==
    LET rows == InRange(sessions, u, start_date, end_date)
    IN  [d \in CreatedDates(rows) |-> SumDuration(OnDate(rows, d))]

\* mood_data: per date of the filtered entries, AVG(stress_level), AVG(energy_level)
MoodData(u, start_date, end_date) ==
    LET rows == InRange(wellness, u, start_date, end_date)
    IN  [d \in CreatedDates(rows) |->
            [avg_stress |-> AvgStress(OnDate(rows, d)),
             avg_energy |-> AvgEnergy(OnDate(rows, d))]]

\* subjects: per subject of the filtered sessions, SUM(duration)
SubjectRows(u, start_date, end_date) ==
    LET rows == InRange(sessions, u, start_date, end_date)
    IN  {[subject |-> sb,
          total_duration |-> SumDuration({r \in rows : r.subject = sb})] :
            sb \in {r.subject : r \in rows}}

\* ORDER BY SUM(duration) DESC: every order of the rows the database may
\* return, rows of equal total in either order
OrderedByTotalDesc(rows) ==
    {sq \in [1..Cardinality(rows) -> rows] :
        /\ \A i, j \in DOMAIN sq : i # j => sq[i] # sq[j]
        /\ \A i, j \in DOMAIN sq :
              i < j => sq[i].total_duration >= sq[j].total_duration}

\* dates = [(start_date + timedelta(days=i)).strftime(...) for i in range(days)]
Dates(start_date, days) ==
    IF days < 1 THEN <<>>
    ELSE [i \in 1..days |-> DateOf(start_date + DaysDelta(i - 1))]

\* study_data.get(date, 0), with study_data[date] = total_duration / 60
StudyDefault == Zero
StudyHours(daily_data, dates) ==
    [i \in DOMAIN dates |->
        IF dates[i] \in DOMAIN daily_data
        THEN Rat(daily_data[dates[i]], 60)
        ELSE StudyDefault]

\* faulty variant: a day without a wellness entry is filled with 0
StressDefault_m == Zero

\* mood_data_dict.get(date, None)
StressDefault == NULL
StressLevelsOf(mood_data, dates) ==
    [i \in DOMAIN dates |->
        IF dates[i] \in DOMAIN mood_data
        THEN mood_data[dates[i]].avg_stress
        ELSE StressDefault]

\* energy_data_dict.get(date, None)
EnergyDefault == NULL
EnergyLevelsOf(mood_data, dates) ==
    [i \in DOMAIN dates |->
        IF dates[i] \in DOMAIN mood_data
        THEN mood_data[dates[i]].avg_energy
        ELSE EnergyDefault]

\* Python truth of a level: not None and not 0
Truthy(x) == x # NULL /\ x.n # 0

RECURSIVE SumTruthy(_)
SumTruthy(s) ==
    IF s = <<>> THEN Zero
    ELSE IF Truthy(Head(s)) THEN RAdd(Head(s), SumTruthy(Tail(s)))
    ELSE SumTruthy(Tail(s))

\* faulty variant: the divisor counts every day of the window
NotNoneCount_m(levels) == Len(levels)

\* len([s for s in levels if s is not None])
NotNoneCount(levels) == Cardinality({i \in DOMAIN levels : levels[i] # NULL})

\* round(sum(filter(None, levels)) / len([... is not None]), 1) if any(levels) else None
AvgLevel(levels) ==
    IF \E i \in DOMAIN levels : Truthy(levels[i])
    THEN Round(RDivInt(SumTruthy(levels), NotNoneCount(levels)), 1)
    ELSE NULL

get_study_analytics(u, days, subjects) ==
    LET end_date == now
        start_date == StartDate(end_date, days)
        daily_data == DailyData(u, start_date, end_date)
        mood_data == MoodData(u, start_date, end_date)
        dates == Dates(start_date, days)
        study_hours == StudyHours(daily_data, dates)
        stress_levels == StressLevelsOf(mood_data, dates)
        energy_levels == EnergyLevelsOf(mood_data, dates)
    IN  [op |-> "analytics", user_id |-> u, days |-> days,
         subject_rows |-> subjects,
         dates |-> dates,
         study_hours |-> study_hours,
         stress_levels |-> stress_levels,
         energy_levels |-> energy_levels,
         subjects |->
            [labels |-> [i \in DOMAIN subjects |-> subjects[i].subject],
             data |-> [i \in DOMAIN subjects |->
                          Round(Rat(subjects[i].total_duration, 60), 1)]],
         total_study_hours |-> Round(RSumSeq(study_hours), 1),
         avg_stress |-> AvgLevel(stress_levels),
         avg_energy |-> AvgLevel(energy_levels)]

\* a request served by get_study_analytics
Analytics(u, days) ==
    /\ \E subjects \in OrderedByTotalDesc(
            SubjectRows(u, StartDate(now, days), now)) :
          res' = get_study_analytics(u, days, subjects)
    /\ UNCHANGED <<now, sessions, wellness, next_session_id, next_wellness_id>>

\* GET /api/study-sessions?days=..: days = int(request.args.get('days', 7))
\* goes to get_study_analytics as it is
get_study_sessions(u, days) == Analytics(u, days)

(***************************************************************************)
(* calculate_productivity_score(user_id, session)                          *)
(***************************************************************************)
LookbackDays == 7
CapHours == 20
StudyPoints == 50
WeekLength == 7
ConsistencyPoints == 30
DefaultStress == 5
MoodPoints == 20

\* week_ago = datetime.utcnow() - timedelta(days=7)
WeekAgo(t) == t - DaysDelta(LookbackDays)

\* faulty variant: the rows of every user are taken
Since_m(S, u, week_ago) ==
    {r \in S : r.created_at >= week_ago}

\* the filter of the three queries: user_id, created_at >= week_ago
Since(S, u, week_ago) ==
    {r \in S : r.user_id = u /\ r.created_at >= week_ago}

\* SUM(duration) ... .scalar() or 0
StudyTime(u, week_ago) == SumDuration(Since(sessions, u, week_ago))

\* faulty variant: the hours are not capped
StudyScore_m(study_time) ==
    LET study_hours == Rat(study_time, 60)
    IN  RMul(RDivInt(study_hours, CapHours), RInt(StudyPoints))

\* study_hours = min(study_time / 60, 20); study_score = (study_hours / 20) * 50
StudyScore(study_time) ==
    LET study_hours == RMin(Rat(study_time, 60), RInt(CapHours))
    IN  RMul(RDivInt(study_hours, CapHours), RInt(StudyPoints))

\* faulty variant: the sessions are counted, not their dates
StudyDays_m(u, week_ago) == Cardinality(Since(sessions, u, week_ago))

\* COUNT(DISTINCT DATE(created_at)) ... .scalar() or 0
StudyDays(u, week_ago) == Cardinality(CreatedDates(Since(sessions, u, week_ago)))

\* consistency_score = (study_days / 7) * 30
ConsistencyScore(study_days) ==
    RMul(Rat(study_days, WeekLength), RInt(ConsistencyPoints))

\* faulty variant: without wellness data the stress is taken to be 1
AvgMood_m(u, week_ago) ==
    LET rows == Since(wellness, u, week_ago)
        avg == IF rows = {} THEN NULL ELSE AvgStress(rows)
    IN  IF Truthy(avg) THEN avg ELSE RInt(1)

\* AVG(stress_level) ... .scalar() or 5
AvgMood(u, week_ago) ==
    LET rows == Since(wellness, u, week_ago)
        avg == IF rows = {} THEN NULL ELSE AvgStress(rows)
    IN  IF Truthy(avg) THEN avg ELSE RInt(DefaultStress)

\* faulty variant: the stress scale is taken to be 10 wide
MoodScore_m(avg_mood) ==
    RMul(RSub(RInt(1), RDivInt(RSub(avg_mood, RInt(1)), 10)), RInt(MoodPoints))

\* mood_score = (1 - (avg_mood - 1) / 9) * 20
MoodScore(avg_mood) ==
    RMul(RSub(RInt(1), RDivInt(RSub(avg_mood, RInt(1)), 9)), RInt(MoodPoints))

\* faulty variant: the total is returned unclamped
Clamp_m(x) == x

\* min(100, max(0, x))
Clamp(x) == RMin(RInt(100), RMax(Zero, x))

calculate_productivity_score(u) ==
    LET week_ago == WeekAgo(now)
        study_time == StudyTime(u, week_ago)
        study_score == StudyScore(study_time)
        study_days == StudyDays(u, week_ago)
        consistency_score == ConsistencyScore(study_days)
        avg_mood == AvgMood(u, week_ago)
        mood_score == MoodScore(avg_mood)
        total_score == RAdd(RAdd(study_score, consistency_score), mood_score)
    IN  [op |-> "score", user_id |-> u,
         study_time |-> study_time,
         study_score |-> study_score,
         study_days |-> study_days,
         consistency_score |-> consistency_score,
         avg_mood |-> avg_mood,
         mood_score |-> mood_score,
         total_score |-> total_score,
         value |-> Clamp(Round(total_score, 2))]

\* faulty variant: the request also purges the user's sessions of earlier
\* days
Score_m(u) ==
    /\ res' = calculate_productivity_score(u)
    /\ sessions' = {r \in sessions :
                       r.user_id # u \/ DateOf(r.created_at) = DateOf(now)}
    /\ UNCHANGED <<now, wellness, next_session_id, next_wellness_id>>

\* a request served by calculate_productivity_score
Score(u) ==
    /\ res' = calculate_productivity_score(u)
    /\ UNCHANGED <<now, sessions, wellness, next_session_id, next_wellness_id>>

(***************************************************************************)
(* generate_study_recommendations(user_id, session)                        *)
(***************************************************************************)
RecentLimit == 5
LongSessionMinutes == 60
HighStressLevel == 7

\* faulty variant: the query has no limit
Limit_m(n, k) == n

\* .limit(k): the number of rows returned when n rows match
Limit(n, k) == IF n < k THEN n ELSE k

\* faulty variant: only the rows of the last LookbackDays days are looked at
MostRecent_m(S, u, k) ==
    LET mine == {r \in S : r.user_id = u /\ r.created_at >= WeekAgo(now)}
        n == IF Cardinality(mine) < k THEN Cardinality(mine) ELSE k
    IN  {R \in SUBSET mine :
            /\ Cardinality(R) = n
            /\ \A r \in R, o \in mine \ R : r.created_at >= o.created_at}

\* .filter(user_id == u).order_by(created_at.desc()).limit(5).all(): every
\* set of rows the database may return, rows of equal created_at being in
\* no defined order
MostRecent(S, u, k) ==
    LET mine == {r \in S : r.user_id = u}
        n == Limit(Cardinality(mine), k)
    IN  {R \in SUBSET mine :
            /\ Cardinality(R) = n
            /\ \A r \in R, o \in mine \ R : r.created_at >= o.created_at}

BreakTip == [type |-> "break", title |-> "Take Regular Breaks", priority |-> "high"]
StressTip == [type |-> "wellness", title |-> "High Stress Detected", priority |-> "high"]
general_tips ==
    << [type |-> "study", title |-> "Use Active Recall", priority |-> "medium"],
       [type |-> "study", title |-> "Space Out Your Study Sessions",
        priority |-> "medium"] >>

\* faulty variant: avg_duration >= 60
LongSessions_m(recent_sessions) ==
    /\ recent_sessions # {}
    /\ RLe(RInt(LongSessionMinutes),
           Rat(SumDuration(recent_sessions), Cardinality(recent_sessions)))

\* if recent_sessions: avg_duration = sum / len; if avg_duration > 60
LongSessions(recent_sessions) ==
    /\ recent_sessions # {}
    /\ RLt(RInt(LongSessionMinutes),
           Rat(SumDuration(recent_sessions), Cardinality(recent_sessions)))

\* faulty variant: avg_stress >= 7
HighStress_m(recent_wellness) ==
    /\ recent_wellness # {}
    /\ RLe(RInt(HighStressLevel),
           Rat(SumStress(recent_wellness), Cardinality(recent_wellness)))

\* if recent_wellness: avg_stress = sum / len; if avg_stress > 7
HighStress(recent_wellness) ==
    /\ recent_wellness # {}
    /\ RLt(RInt(HighStressLevel),
           Rat(SumStress(recent_wellness), Cardinality(recent_wellness)))

\* faulty variant: the general tips are always appended
WithGeneralTips_m(recommendations) == recommendations \o general_tips

\* if not recommendations: recommendations.extend(general_tips)
WithGeneralTips(recommendations) ==
    IF recommendations = <<>> THEN recommendations \o general_tips
    ELSE recommendations

\* faulty variant: the stress rule is looked at only when the break rule
\* has not fired
generate_study_recommendations_m(u, recent_sessions, recent_wellness) ==
    LET r1 == IF LongSessions(recent_sessions) THEN <<BreakTip>> ELSE <<>>
        r2 == IF r1 = <<>> /\ HighStress(recent_wellness)
              THEN Append(r1, StressTip) ELSE r1
    IN  [op |-> "recommend", user_id |-> u,
         recent_sessions |-> recent_sessions,
         recent_wellness |-> recent_wellness,
         recommendations |-> WithGeneralTips(r2)]

generate_study_recommendations(u, recent_sessions, recent_wellness) ==
    LET r1 == IF LongSessions(recent_sessions) THEN <<BreakTip>> ELSE <<>>
        r2 == IF HighStress(recent_wellness) THEN Append(r1, StressTip) ELSE r1
    IN  [op |-> "recommend", user_id |-> u,
         recent_sessions |-> recent_sessions,
         recent_wellness |-> recent_wellness,
         recommendations |-> WithGeneralTips(r2)]

\* a request served by generate_study_recommendations
Recommend(u) ==
    /\ \E recent_sessions \in MostRecent(sessions, u, RecentLimit),
          recent_wellness \in MostRecent(wellness, u, RecentLimit) :
          res' = generate_study_recommendations(u, recent_sessions, recent_wellness)
    /\ UNCHANGED <<now, sessions, wellness, next_session_id, next_wellness_id>>

(***************************************************************************)
(* The application: both users log records and ask for their analytics.    *)
(***************************************************************************)
NumRecords == Cardinality(sessions) + Cardinality(wellness)

Next ==
    \/ \E f \in StudyForms :
          NumRecords < MaxRecords /\ LogStudy(f[1], f[2], f[3])
    \/ \E f \in WellnessForms :
          NumRecords < MaxRecords /\ LogWellness(f[1], f[2], f[3])
    \/ now < MaxTime /\ Tick(1)
    \/ \E u \in Users, days \in DaysArgs : get_study_sessions(u, days)
    \/ \E u \in Users : Score(u)
    \/ \E u \in Users : Recommend(u)

Spec == Init /\ [][Next]_vars

(***************************************************************************)
(* A user who logs study sessions with and without notes, whatever the     *)
(* sentiment classifier does with them.                                    *)
(***************************************************************************)
SubjectInputs == {"", "math"}
DurationInputs == {0, 30}
NotesInputs == {Absent, "", "  ", "tired"}

NextSentiment ==
    \/ \E subject \in SubjectInputs, duration \in DurationInputs,
          notes \in NotesInputs, cls \in ClassifierOutcomes :
          /\ Cardinality(sessions) < MaxLogged
          /\ new_study_session(1, subject, duration, notes, cls)
    \/ now < MaxTime /\ Tick(1)

SpecSentiment == Init /\ [][NextSentiment]_vars

(***************************************************************************)
(* Two users with some records each, of the last two days.                 *)
(***************************************************************************)
PoolNow == 4

PoolSessions ==
    {StudySession(1, 1, "math", 30, SignedScore(NeutralSentiment), 1),
     StudySession(2, 1, "history", 90, SignedScore(NeutralSentiment), 2),
     StudySession(3, 2, "math", 90, SignedScore(NeutralSentiment), 3),
     StudySession(4, 1, "math", 45, SignedScore(NeutralSentiment), 4)}

PoolWellness ==
    {WellnessEntry(1, 1, 7, 4, 1),
     WellnessEntry(2, 1, 8, 9, 3),
     WellnessEntry(3, 2, 8, 9, 3)}

InitPool ==
    \E S \in SUBSET PoolSessions, W \in SUBSET PoolWellness :
        /\ now = PoolNow
        /\ sessions = S
        /\ wellness = W
        /\ next_session_id = Cardinality(PoolSessions) + 1
        /\ next_wellness_id = Cardinality(PoolWellness) + 1
        /\ res = NoResult

(***************************************************************************)
(* A user who asks twice: between the two requests the clock moves on, or  *)
(* the other user writes to the store, and res then holds both answers.    *)
(* A query that selects the same rows as before gets them from the         *)
(* database in the same order as before.                                   *)
(***************************************************************************)
Waits == (1..MaxWait) \cup {DaysDelta(LookbackDays)}
NewSubjects == {"art"}
\* what the other user submits: <<subject, duration>>, <<stress, energy>>
OtherStudyForms == {<<"math", 90>>}
OtherWellnessForms == {<<8, 9>>}

\* the records written since the pool was set up
NumWritten ==
    (next_session_id - (Cardinality(PoolSessions) + 1))
        + (next_wellness_id - (Cardinality(PoolWellness) + 1))

IsCallResult == res.op \in {"analytics", "score", "recommend"}

\* the first answer is in hand while something else happens
Pending(dt, writer) ==
    [op |-> "pending", dt |-> dt, writer |-> writer, first |-> res]

\* the clock moves on between the two requests
Wait(dt) ==
    /\ IsCallResult
    /\ now' = now + dt
    /\ res' = Pending(dt, 0)
    /\ UNCHANGED <<sessions, wellness, next_session_id, next_wellness_id>>

\* what new_study_session of user b adds to the store
WriteStudy(b, subj, dur) ==
    /\ subj # ""
    /\ dur > 0
    /\ sessions' = sessions \cup
          {StudySession(next_session_id, b, subj, dur,
                        SignedScore(NeutralSentiment), now)}
    /\ next_session_id' = next_session_id + 1
    /\ UNCHANGED <<wellness, next_wellness_id>>

\* a wellness entry of user b is added to the store
WriteWellness(b, stress, energy) ==
    /\ wellness' = wellness \cup
          {WellnessEntry(next_wellness_id, b, stress, energy, now)}
    /\ next_wellness_id' = next_wellness_id + 1
    /\ UNCHANGED <<sessions, next_session_id>>

\* the JSON body of a PUT /api/sessions/<id>: the fields it has
SubjectOnly(subj) ==
    [has_subject |-> TRUE, subject |-> subj,
     has_duration |-> FALSE, duration_minutes |-> 0]
DurationOnly(dur) ==
    [has_subject |-> FALSE, subject |-> "",
     has_duration |-> TRUE, duration_minutes |-> dur]

\* faulty variant: the row is looked up by its id alone
api_update_session_m(b, id, data) ==
    /\ sessions' =
          {IF r.id = id
           THEN [r EXCEPT
                   !.subject = IF data.has_subject THEN data.subject ELSE @,
                   !.duration = IF data.has_duration
                                THEN data.duration_minutes ELSE @]
           ELSE r : r \in sessions}
    /\ UNCHANGED <<next_session_id, wellness, next_wellness_id>>

\* api_update_session of user b: the row of that id and that user gets the
\* fields of the body, 404 and no change when there is none
api_update_session(b, id, data) ==
    /\ sessions' =
          {IF r.id = id /\ r.user_id = b
           THEN [r EXCEPT
                   !.subject = IF data.has_subject THEN data.subject ELSE @,
                   !.duration = IF data.has_duration
                                THEN data.duration_minutes ELSE @]
           ELSE r : r \in sessions}
    /\ UNCHANGED <<next_session_id, wellness, next_wellness_id>>

\* api_delete_session, delete_study_session of user b: the row of that id
\* and that user is deleted, 404 and no change when there is none
api_delete_session(b, id) ==
    /\ sessions' = {r \in sessions : ~(r.id = id /\ r.user_id = b)}
    /\ UNCHANGED <<next_session_id, wellness, next_wellness_id>>

\* between the two requests of user u the other user creates, changes or
\* deletes a record
OtherWrites(u) ==
    /\ IsCallResult
    /\ res.user_id = u
    /\ \E b \in Users \ {u} :
          /\ \/ \E f \in OtherStudyForms :
                   /\ NumWritten < MaxWrites
                   /\ WriteStudy(b, f[1], f[2])
             \/ \E f \in OtherWellnessForms :
                   /\ NumWritten < MaxWrites
                   /\ WriteWellness(b, f[1], f[2])
             \/ \E r \in sessions, subj \in NewSubjects :
                   api_update_session(b, r.id, SubjectOnly(subj))
             \/ \E r \in sessions : api_delete_session(b, r.id)
          /\ res' = Pending(0, b)
    /\ UNCHANGED now

\* the first answer, whether or not something has happened since
Asked == IF res.op = "pending" THEN res.first ELSE res
AskedDt == IF res.op = "pending" THEN res.dt ELSE 0
AskedWriter == IF res.op = "pending" THEN res.writer ELSE 0

Both(op, u, second) ==
    [op |-> op, user_id |-> u, dt |-> AskedDt, writer |-> AskedWriter,
     first |-> Asked, second |-> second]

AnalyticsAgain(u, days) ==
    /\ Asked.op = "analytics"
    /\ Asked.user_id = u
    /\ Asked.days = days
    /\ \E subjects \in OrderedByTotalDesc(
            SubjectRows(u, StartDate(now, days), now)) :
          /\ Asked.subject_rows \in OrderedByTotalDesc(
                 SubjectRows(u, StartDate(now, days), now))
                => subjects = Asked.subject_rows
          /\ res' = Both("analytics_twice", u,
                         get_study_analytics(u, days, subjects))
    /\ UNCHANGED <<now, sessions, wellness, next_session_id, next_wellness_id>>

ScoreAgain(u) ==
    /\ Asked.op = "score"
    /\ Asked.user_id = u
    /\ res' = Both("score_twice", u, calculate_productivity_score(u))
    /\ UNCHANGED <<now, sessions, wellness, next_session_id, next_wellness_id>>

RecommendAgain(u) ==
    /\ Asked.op = "recommend"
    /\ Asked.user_id = u
    /\ \E recent_sessions \in MostRecent(sessions, u, RecentLimit),
          recent_wellness \in MostRecent(wellness, u, RecentLimit) :
          /\ Asked.recent_sessions \in MostRecent(sessions, u, RecentLimit)
                => recent_sessions = Asked.recent_sessions
          /\ Asked.recent_wellness \in MostRecent(wellness, u, RecentLimit)
                => recent_wellness = Asked.recent_wellness
          /\ res' = Both("recommend_twice", u,
                         generate_study_recommendations(u, recent_sessions,
                                                        recent_wellness))
    /\ UNCHANGED <<now, sessions, wellness, next_session_id, next_wellness_id>>

NextTwice ==
    \/ \E u \in Users, days \in DaysArgs : get_study_sessions(u, days)
    \/ \E u \in Users : Score(u)
    \/ \E u \in Users : Recommend(u)
    \/ \E dt \in Waits : now = PoolNow /\ Wait(dt)
    \/ \E u \in Users, days \in DaysArgs : AnalyticsAgain(u, days)
    \/ \E u \in Users : ScoreAgain(u)
    \/ \E u \in Users : RecommendAgain(u)

SpecTwice == InitPool /\ [][NextTwice]_vars

InitFullPool ==
    /\ now = PoolNow
    /\ sessions = PoolSessions
    /\ wellness = PoolWellness
    /\ next_session_id = Cardinality(PoolSessions) + 1
    /\ next_wellness_id = Cardinality(PoolWellness) + 1
    /\ res = NoResult

NextIsolation ==
    \/ \E u \in Users, days \in DaysArgs : get_study_sessions(u, days)
    \/ \E u \in Users : Score(u)
    \/ \E u \in Users : Recommend(u)
    \/ \E u \in Users : OtherWrites(u)
    \/ \E u \in Users, days \in DaysArgs : AnalyticsAgain(u, days)
    \/ \E u \in Users : ScoreAgain(u)
    \/ \E u \in Users : RecommendAgain(u)

SpecIsolation == InitFullPool /\ [][NextIsolation]_vars

(***************************************************************************)
(* The routes that create and update study sessions; res is the response.  *)
(***************************************************************************)
\* add_session: the form is validated and inserted, without a sentiment
AddSession(u, subject_raw, duration) ==
    LET subject == FormText(subject_raw)
        ok == ~(subject = "" \/ duration <= 0)
    IN  /\ res' = [op |-> "add_session", user_id |-> u, id |-> next_session_id,
                   has_duration |-> TRUE, duration |-> duration,
                   status |-> IF ok THEN "ok" ELSE "rejected"]
        /\ IF ok
           THEN /\ sessions' = sessions \cup
                      {StudySession(next_session_id, u, subject, duration,
                                    NULL, now)}
                /\ next_session_id' = next_session_id + 1
           ELSE UNCHANGED <<sessions, next_session_id>>
        /\ UNCHANGED <<now, wellness, next_wellness_id>>

\* api_create_session: a body with the required fields is stored as it is
ApiCreateSession(u, data) ==
    /\ res' = [op |-> "api_create_session", user_id |-> u,
               id |-> next_session_id,
               has_duration |-> data.complete,
               duration |-> data.duration_minutes,
               status |-> IF data.complete THEN "ok" ELSE "rejected"]
    /\ IF data.complete
       THEN /\ sessions' = sessions \cup
                  {StudySession(next_session_id, u, data.subject,
                                data.duration_minutes, NULL, now)}
            /\ next_session_id' = next_session_id + 1
       ELSE UNCHANGED <<sessions, next_session_id>>
    /\ UNCHANGED <<now, wellness, next_wellness_id>>

\* the row a route finds by id for the logged-in user, if any
Owned(u, id) == {r \in sessions : r.id = id /\ r.user_id = u}

\* api_update_session, the whole PUT handler
ApiUpdateSession(u, id, data) ==
    /\ res' = [op |-> "api_update_session", user_id |-> u, id |-> id,
               has_duration |-> data.has_duration,
               duration |-> data.duration_minutes,
               rows |-> Owned(u, id),
               status |-> IF Owned(u, id) = {} THEN "not_found" ELSE "ok"]
    /\ api_update_session(u, id, data)
    /\ UNCHANGED now

CreateBodies ==
    {[complete |-> c, subject |-> "math", duration_minutes |-> d] :
        c \in BOOLEAN, d \in {0, 45}}
UpdateBodies == {DurationOnly(0), DurationOnly(45), SubjectOnly("art")}
SessionIds == 1..MaxSessions

NextCreate ==
    \/ \E u \in Users, subject \in SubjectInputs, duration \in DurationInputs :
          /\ next_session_id <= MaxSessions
          /\ new_study_session(u, subject, duration, "", Unavailable)
    \/ \E u \in Users, subject \in SubjectInputs, duration \in DurationInputs :
          /\ next_session_id <= MaxSessions
          /\ AddSession(u, subject, duration)
    \/ \E u \in Users, data \in CreateBodies :
          /\ next_session_id <= MaxSessions
          /\ ApiCreateSession(u, data)
    \/ \E u \in Users, id \in SessionIds, data \in UpdateBodies :
          ApiUpdateSession(u, id, data)

SpecCreate == Init /\ [][NextCreate]_vars

(***************************************************************************)
(* The routes that take the id of a study session; res is the response     *)
(* and rows the rows the handler has got from its query.                   *)
(***************************************************************************)
ById(op, u, id) ==
    [op |-> op, user_id |-> u, id |-> id, rows |-> Owned(u, id),
     status |-> IF Owned(u, id) = {} THEN "not_found" ELSE "ok"]

\* view_study_session: the row is shown, 404 or a redirect without it
ViewStudySession(u, id) ==
    /\ res' = ById("view_study_session", u, id)
    /\ UNCHANGED <<now, sessions, wellness, next_session_id, next_wellness_id>>

\* delete_study_session, the whole POST handler
DeleteStudySession(u, id) ==
    /\ res' = ById("delete_study_session", u, id)
    /\ api_delete_session(u, id)
    /\ UNCHANGED now

\* api_get_session: the row as JSON, 404 without it
ApiGetSession(u, id) ==
    /\ res' = ById("api_get_session", u, id)
    /\ UNCHANGED <<now, sessions, wellness, next_session_id, next_wellness_id>>

\* api_delete_session, the whole DELETE handler
ApiDeleteSession(u, id) ==
    /\ res' = ById("api_delete_session", u, id)
    /\ api_delete_session(u, id)
    /\ UNCHANGED now

\* the ids asked for: those of the rows and one that no row has
PoolIds == 1..(Cardinality(PoolSessions) + 1)
ByIdBodies == {DurationOnly(45), SubjectOnly("art")}

NextById ==
    \/ \E u \in Users, id \in PoolIds : ViewStudySession(u, id)
    \/ \E u \in Users, id \in PoolIds : DeleteStudySession(u, id)
    \/ \E u \in Users, id \in PoolIds : ApiGetSession(u, id)
    \/ \E u \in Users, id \in PoolIds, data \in ByIdBodies :
          ApiUpdateSession(u, id, data)
    \/ \E u \in Users, id \in PoolIds : ApiDeleteSession(u, id)

SpecById == InitFullPool /\ [][NextById]_vars

(***************************************************************************)
(* The statistics of the study-sessions list page and of the stats         *)
(* endpoint, asked without filter arguments.                               *)
(***************************************************************************)
\* SUM(duration_minutes).scalar() or default: None when no row matches
ScalarOr(rows, default) ==
    IF rows = {} \/ SumDuration(rows) = 0 THEN default ELSE SumDuration(rows)

\* study_sessions: `or` binds less tightly than // and %
StudySessionsPage(u) ==
    LET query == {r \in sessions : r.user_id = u}
    IN  /\ res' = [op |-> "study_sessions", user_id |-> u,
                   total_sessions |-> Cardinality(query),
                   total_hours |-> ScalarOr(query, 0 \div 60),
                   total_minutes |-> ScalarOr(query, 0 % 60)]
        /\ UNCHANGED <<now, sessions, wellness, next_session_id,
                       next_wellness_id>>

\* api_get_session_stats
ApiGetSessionStats(u) ==
    LET query == {r \in sessions : r.user_id = u}
        total_minutes == ScalarOr(query, 0)
    IN  /\ res' = [op |-> "api_get_session_stats", user_id |-> u,
                   total_sessions |-> Cardinality(query),
                   total_hours |-> total_minutes \div 60,
                   total_minutes |-> total_minutes % 60]
        /\ UNCHANGED <<now, sessions, wellness, next_session_id,
                       next_wellness_id>>

NextStats ==
    \/ \E u \in Users : StudySessionsPage(u)
    \/ \E u \in Users : ApiGetSessionStats(u)

SpecStats == InitPool /\ [][NextStats]_vars

(***************************************************************************)
(* A user with a week of history: a 180-minute session on some of the days *)
(* 0..MaxWeekDay, logged at the same time of day, and at most one wellness *)
(* entry; then the user goes on logging and asks for the score.            *)
(***************************************************************************)
WeekStudyForms == {<<1, "math", 180>>}
WeekWellnessForms == {<<1, 1, 9>>, <<1, 10, 2>>}

WeekSessions(days, tod) ==
    {StudySession(Cardinality({e \in days : e <= d}), 1, "math", 180,
                  SignedScore(NeutralSentiment),
                  d * TicksPerDay + tod) : d \in days}

InitWeek ==
    \E days \in SUBSET (0..MaxWeekDay), tod \in 0..(TicksPerDay - 1) :
        /\ now = MaxWeekDay * TicksPerDay + tod
        /\ sessions = WeekSessions(days, tod)
        /\ next_session_id = Cardinality(days) + 1
        /\ \/ wellness = {} /\ next_wellness_id = 1
           \/ \E f \in WeekWellnessForms :
                 /\ wellness = {WellnessEntry(1, f[1], f[2], f[3], now)}
                 /\ next_wellness_id = 2
        /\ res = NoResult

NextWeek ==
    \/ now < (MaxWeekDay + 1) * TicksPerDay - 1 /\ Tick(1)
    \/ \E u \in Users : Score(u)

SpecWeek == InitWeek /\ [][NextWeek]_vars

(***************************************************************************)
(* Users with wellness entries of the last days, one of them a week old,   *)
(* who ask for the score.                                                  *)
(***************************************************************************)
MoodEntries(now0) ==
    {WellnessEntry(1, 1, 1, 9, now0),
     WellnessEntry(2, 1, 10, 2, now0 - DaysDelta(1)),
     WellnessEntry(3, 1, 4, 5, now0 - DaysDelta(2)),
     WellnessEntry(4, 1, 10, 2, now0 - DaysDelta(LookbackDays)),
     WellnessEntry(5, 2, 10, 2, now0)}

InitMood ==
    \E tod \in 0..(TicksPerDay - 1) :
        \E W \in SUBSET MoodEntries(MaxWeekDay * TicksPerDay + tod) :
            /\ now = MaxWeekDay * TicksPerDay + tod
            /\ sessions = {}
            /\ next_session_id = 1
            /\ wellness = W
            /\ next_wellness_id = 6
            /\ res = NoResult

NextMood ==
    \/ now < (MaxWeekDay + 1) * TicksPerDay - 1 /\ Tick(1)
    \/ \E u \in Users : Score(u)

SpecMood == InitMood /\ [][NextMood]_vars

(***************************************************************************)
(* A user with a week of sessions who asks for the score, logs one more    *)
(* session today and asks again; res then holds both answers.              *)
(***************************************************************************)
MoreStudyForms == {<<"math", 30>>, <<"math", 180>>}

InitMore ==
    \E days \in SUBSET (0..MaxWeekDay), tod \in 0..(TicksPerDay - 1) :
        /\ now = MaxWeekDay * TicksPerDay + tod
        /\ sessions = WeekSessions(days, tod)
        /\ next_session_id = Cardinality(days) + 1
        /\ wellness = {}
        /\ next_wellness_id = 1
        /\ res = NoResult

\* the user's sessions of today
OfToday(u) ==
    {r \in sessions : r.user_id = u /\ DateOf(r.created_at) = DateOf(now)}

\* between the two requests the user logs a session
OwnWrites(u) ==
    /\ IsCallResult
    /\ res.user_id = u
    /\ Cardinality(OfToday(u)) <= MaxWrites
    /\ \E f \in MoreStudyForms : WriteStudy(u, f[1], f[2])
    /\ res' = Pending(0, u)
    /\ UNCHANGED now

\* the user who has the history
WeekUsers == {1}

NextMore ==
    \/ now < (MaxWeekDay + 1) * TicksPerDay - 1 /\ Tick(1)
    \/ \E u \in WeekUsers : Score(u)
    \/ \E u \in WeekUsers : OwnWrites(u)
    \/ \E u \in WeekUsers : ScoreAgain(u)

SpecMore == InitMore /\ [][NextMore]_vars

(***************************************************************************)
(* A user with a history of sessions and of wellness entries, oldest       *)
(* first, one or two of them to a tick, who asks for recommendations.      *)
(***************************************************************************)
RecStudyForms == {<<1, "math", 30>>, <<1, "math", 90>>}
RecWellnessForms == {<<1, 6, 4>>, <<1, 8, 4>>}

Histories(forms, n) == [1..n -> forms]

InitRec ==
    \E g \in {1, 2}, ns \in 0..MaxRecHistory, nw \in 0..MaxRecHistory :
        /\ ns + nw <= MaxRecHistory
        /\ \E hs \in Histories(RecStudyForms, ns) :
              sessions = {StudySession(i, hs[i][1], hs[i][2], hs[i][3],
                                       SignedScore(NeutralSentiment),
                                       (i - 1) \div g) : i \in 1..ns}
        /\ next_session_id = ns + 1
        /\ \E hw \in Histories(RecWellnessForms, nw) :
              wellness = {WellnessEntry(i, hw[i][1], hw[i][2], hw[i][3],
                                        (i - 1) \div g) : i \in 1..nw}
        /\ next_wellness_id = nw + 1
        /\ now = MaxRecHistory \div g
        /\ res = NoResult

NextRec ==
    \/ now < MaxRecHistory /\ Tick(1)
    \/ \E u \in Users : Recommend(u)

SpecRec == InitRec /\ [][NextRec]_vars

(***************************************************************************)
(* Recommendations asked once and again by a user with a history, who     *)
(* between the two requests adds, changes or deletes a record older than   *)
(* the fifth most recent of its kind, or lets time pass.                   *)
(***************************************************************************)
InitOld ==
    \E g \in {1, 2}, ns \in 0..MaxRecHistory, nw \in 0..MaxRecHistory :
        /\ ns + nw <= MaxRecHistory
        /\ ns >= RecentLimit \/ nw >= RecentLimit
        /\ \E hs \in Histories(RecStudyForms, ns) :
              sessions = {StudySession(i, hs[i][1], hs[i][2], hs[i][3],
                                       SignedScore(NeutralSentiment),
                                       1 + ((i - 1) \div g)) : i \in 1..ns}
        /\ next_session_id = ns + 1
        /\ \E hw \in Histories(RecWellnessForms, nw) :
              wellness = {WellnessEntry(i, hw[i][1], hw[i][2], hw[i][3],
                                        1 + ((i - 1) \div g)) : i \in 1..nw}
        /\ next_wellness_id = nw + 1
        /\ now = 1 + MaxRecHistory
        /\ res = NoResult

\* a row of created_at t is older than the k-th most recent row of mine
OlderThanRecent(mine, t, k) ==
    Cardinality({o \in mine : o.created_at > t}) >= k

\* session.add_all(study_sessions): a row with a created_at of its own
SeedStudySession(u, subj, dur, at) ==
    /\ sessions' = sessions \cup
          {StudySession(next_session_id, u, subj, dur,
                        SignedScore(NeutralSentiment), at)}
    /\ next_session_id' = next_session_id + 1
    /\ UNCHANGED <<wellness, next_wellness_id>>

\* session.add_all(wellness_entries): a row with a created_at of its own
SeedWellnessEntry(u, stress, energy, at) ==
    /\ wellness' = wellness \cup
          {WellnessEntry(next_wellness_id, u, stress, energy, at)}
    /\ next_wellness_id' = next_wellness_id + 1
    /\ UNCHANGED <<sessions, next_session_id>>

\* between the two requests of user u a record of u that is older than
\* the fifth most recent of its kind is added, changed or deleted
OldWrites(u) ==
    LET mine == {r \in sessions : r.user_id = u}
        entries == {w \in wellness : w.user_id = u}
        old == {r \in mine : OlderThanRecent(mine, r.created_at, RecentLimit)}
    IN  /\ IsCallResult
        /\ res.user_id = u
        /\ \/ \E f \in RecStudyForms, at \in {0, 1} :
                 /\ f[1] = u
                 /\ OlderThanRecent(mine, at, RecentLimit)
                 /\ SeedStudySession(u, f[2], f[3], at)
           \/ \E f \in RecWellnessForms, at \in {0, 1} :
                 /\ f[1] = u
                 /\ OlderThanRecent(entries, at, RecentLimit)
                 /\ SeedWellnessEntry(u, f[2], f[3], at)
           \/ \E r \in old, f \in RecStudyForms :
                 /\ f[3] # r.duration
                 /\ api_update_session(u, r.id, DurationOnly(f[3]))
           \/ \E r \in old : api_delete_session(u, r.id)
        /\ res' = Pending(0, u)
        /\ UNCHANGED now

NextOld ==
    \/ \E u \in WeekUsers : res = NoResult /\ Recommend(u)
    \/ \E u \in WeekUsers : OldWrites(u)
    \/ \E dt \in Waits : Wait(dt)
    \/ \E u \in WeekUsers : RecommendAgain(u)

SpecOld == InitOld /\ [][NextOld]_vars

(***************************************************************************)
(* The daily aggregator.                                                   *)
(***************************************************************************)
IsAnalytics == res.op = "analytics" /\ res.days >= 1
Today == DateOf(now)
MySessions(u) == {s \in sessions : s.user_id = u}
MyWellness(u) == {w \in wellness : w.user_id = u}

\* C1: for days >= 1 the four series have exactly `days` entries and the
\* dates are the consecutive calendar days today-days+1 .. today, ascending.
C1_DenseSeries ==
    IsAnalytics =>
        /\ Len(res.dates) = res.days
        /\ Len(res.study_hours) = res.days
        /\ Len(res.stress_levels) = res.days
        /\ Len(res.energy_levels) = res.days
        /\ \A i \in 1..res.days : res.dates[i] = Today - res.days + i

C1_Witness ==
    /\ IsAnalytics
    /\ res.days = 2
    /\ res.dates = <<Today - 1, Today>>
    /\ MySessions(res.user_id) # {}

\* C2: the study_hours of every date of the window is the sum of the
\* durations of all the user's sessions of that calendar date, over 60.
C2_WholeDays ==
    IsAnalytics =>
        \A i \in 1..res.days :
            res.study_hours[i] =
                Rat(SumDuration(OnDate(MySessions(res.user_id),
                                       Today - res.days + i)), 60)

\* C3: a date without a study event has 0 hours, a date without a wellness
\* entry has null (not 0) stress and energy; with no event in the window the
\* hours are all 0, the levels and both averages null, the subjects empty.
C3_GapFill ==
    IsAnalytics =>
        LET u == res.user_id
            window == (Today - res.days + 1)..Today
        IN  /\ \A i \in 1..res.days :
                  /\ OnDate(MySessions(u), res.dates[i]) = {}
                        => res.study_hours[i] = Zero
                  /\ OnDate(MyWellness(u), res.dates[i]) = {}
                        => /\ res.stress_levels[i] = NULL
                           /\ res.energy_levels[i] = NULL
            /\ (\A d \in window :
                    OnDate(MySessions(u), d) = {} /\ OnDate(MyWellness(u), d) = {})
                  => /\ \A i \in 1..res.days :
                          /\ res.study_hours[i] = Zero
                          /\ res.stress_levels[i] = NULL
                          /\ res.energy_levels[i] = NULL
                     /\ res.avg_stress = NULL
                     /\ res.avg_energy = NULL
                     /\ res.subjects.labels = <<>>
                     /\ res.subjects.data = <<>>

C3_Witness ==
    /\ IsAnalytics
    /\ res.days = 2
    /\ \E i, j \in 1..2 :
          /\ res.study_hours[i] # Zero
          /\ res.study_hours[j] = Zero
          /\ OnDate(MySessions(res.user_id), res.dates[j]) = {}
    /\ \E i, j \in 1..2 :
          /\ res.stress_levels[i] # NULL
          /\ res.stress_levels[j] = NULL
          /\ res.energy_levels[j] = NULL

\* the mean of the entries of a series that are not null
NonNull(levels) == {i \in DOMAIN levels : levels[i] # NULL}

RECURSIVE SumAt(_, _)
SumAt(levels, I) ==
    IF I = {} THEN Zero
    ELSE LET i == CHOOSE j \in I : TRUE
         IN  RAdd(levels[i], SumAt(levels, I \ {i}))

MeanNonNull(levels) ==
    RDivInt(SumAt(levels, NonNull(levels)), Cardinality(NonNull(levels)))

\* C4 as claimed: avg_stress is null iff every stress level is null, and is
\* otherwise the mean of the non-null stress levels.
C4_ExactMean ==
    IsAnalytics =>
        /\ res.avg_stress = NULL <=> NonNull(res.stress_levels) = {}
        /\ res.avg_stress # NULL => res.avg_stress = MeanNonNull(res.stress_levels)

\* C4 as amended: avg_stress is null iff every stress level is null, and is
\* otherwise the mean of the non-null stress levels rounded to 1 decimal.
C4_RoundedMean ==
    IsAnalytics =>
        /\ res.avg_stress = NULL <=> NonNull(res.stress_levels) = {}
        /\ res.avg_stress # NULL
              => res.avg_stress = Round(MeanNonNull(res.stress_levels), 1)

C4_Witness ==
    /\ IsAnalytics
    /\ res.avg_stress # NULL
    /\ \E i, j \in 1..res.days :
          res.stress_levels[i] = NULL /\ res.stress_levels[j] # NULL
    /\ Cardinality(MyWellness(res.user_id)) >= 2

(***************************************************************************)
(* The productivity scorer.                                                *)
(***************************************************************************)
IsScore == res.op = "score"

\* C5: the score returned is in [0, 100].
C5_ScoreInRange ==
    IsScore => RLe(Zero, res.value) /\ RLe(res.value, RInt(100))

C5_Witness ==
    /\ IsScore
    /\ RLt(RInt(100), res.total_score)
    /\ res.value = RInt(100)

\* C6: the number of distinct days counted is between 0 and 7 and the
\* consistency sub-score is at most 30.
C6_AtMostSevenDays ==
    IsScore =>
        /\ 0 <= res.study_days
        /\ res.study_days <= 7
        /\ RLe(res.consistency_score, RInt(30))

\* C7: on valid records the sub-scores are within [0,50], [0,30] and [0,20]
\* and the final clamp leaves the rounded total as it is.
C7_ClampIdle ==
    IsScore =>
        /\ RLe(Zero, res.study_score) /\ RLe(res.study_score, RInt(50))
        /\ RLe(Zero, res.consistency_score) /\ RLe(res.consistency_score, RInt(30))
        /\ RLe(Zero, res.mood_score) /\ RLe(res.mood_score, RInt(20))
        /\ res.value = Round(res.total_score, 2)

\* the user's sessions of the `days` calendar days up to today
WindowSessions(u, days) ==
    {r \in MySessions(u) : /\ DateOf(r.created_at) >= Today - days + 1
                            /\ DateOf(r.created_at) <= Today}

\* C19: the subject breakdown lists each subject studied in the window
\* once, with the hours of the subject's sessions in the window rounded to
\* 1 decimal, in the order of non-increasing total duration.
C19_SubjectBreakdown ==
    IsAnalytics =>
        LET mine == WindowSessions(res.user_id, res.days)
            Total(subject) == SumDuration({r \in mine : r.subject = subject})
            labels == res.subjects.labels
            data == res.subjects.data
        IN  /\ Len(labels) = Cardinality({r.subject : r \in mine})
            /\ {labels[i] : i \in DOMAIN labels} = {r.subject : r \in mine}
            /\ DOMAIN data = DOMAIN labels
            /\ \A i \in DOMAIN labels :
                  data[i] = Round(Rat(Total(labels[i]), 60), 1)
            /\ \A i, j \in DOMAIN labels :
                  i < j => Total(labels[i]) >= Total(labels[j])

\* C20: /api/study-sessions never calls get_study_analytics with days < 1.
C20_DaysValidated == res.op = "analytics" => res.days >= 1

\* the user's rows of the last 7 days, and of the 7 calendar days up to today
InLookback(S, u) ==
    {r \in S : r.user_id = u /\ r.created_at >= now - 7 * TicksPerDay}
InLastSevenDates(S, u) ==
    {r \in S : /\ r.user_id = u
                /\ DateOf(r.created_at) >= Today - 6
                /\ DateOf(r.created_at) <= Today}

\* C17: with no study session and no wellness entry in the last 7 days the
\* sub-scores are 0, 0 and (1 - (5 - 1)/9) * 20, and the score is 11.11.
C17_EmptyWeek ==
    IsScore /\ InLookback(sessions, res.user_id) = {}
            /\ InLookback(wellness, res.user_id) = {}
        => /\ res.study_score = Zero
           /\ res.consistency_score = Zero
           /\ res.avg_mood = RInt(5)
           /\ res.mood_score = RMul(RSub(RInt(1), Rat(5 - 1, 9)), RInt(20))
           /\ res.value = Rat(1111, 100)

C17_Witness ==
    /\ IsScore
    /\ MySessions(res.user_id) # {}
    /\ InLookback(sessions, res.user_id) = {}
    /\ InLookback(wellness, res.user_id) = {}
    /\ res.value = Rat(1111, 100)

\* the user has studied on each of the 7 calendar days up to today, 20
\* hours or more in all, and every wellness entry of these days has stress 1
FullWeek(u) ==
    /\ \A d \in (Today - 6)..Today :
          \E r \in MySessions(u) : DateOf(r.created_at) = d
    /\ SumDuration(InLastSevenDates(sessions, u)) >= 20 * 60
    /\ InLastSevenDates(wellness, u) # {}
    /\ \A w \in InLookback(wellness, u) : w.stress_level = 1

\* C18: with 20 hours or more of study logged across all 7 days and stress 1
\* on every day the sub-scores are exactly 50, 30 and 20 and the score 100.
C18_FullMarks ==
    IsScore /\ FullWeek(res.user_id)
        => /\ res.study_score = RInt(50)
           /\ res.consistency_score = RInt(30)
           /\ res.mood_score = RInt(20)
           /\ res.value = RInt(100)

(***************************************************************************)
(* The recommendation engine.                                              *)
(***************************************************************************)
IsRecommend == res.op = "recommend"
Emitted(tip) == \E i \in DOMAIN res.recommendations : res.recommendations[i] = tip
FallbackTips ==
    << [type |-> "study", title |-> "Use Active Recall", priority |-> "medium"],
       [type |-> "study", title |-> "Space Out Your Study Sessions",
        priority |-> "medium"] >>

\* the rows a query for the k most recent of the user's rows may return
IsMostRecent(R, mine, k) ==
    /\ R \subseteq mine
    /\ Cardinality(R) = IF Cardinality(mine) < k THEN Cardinality(mine) ELSE k
    /\ \A r \in R, o \in mine \ R : r.created_at >= o.created_at

LongRuleFires ==
    /\ res.recent_sessions # {}
    /\ SumDuration(res.recent_sessions) > 60 * Cardinality(res.recent_sessions)

StressRuleFires ==
    /\ res.recent_wellness # {}
    /\ SumStress(res.recent_wellness) > 7 * Cardinality(res.recent_wellness)

\* C8: the fallback is emitted iff neither rule fires, and is then exactly
\* the two fixed tips in their order; a user without any record gets it.
C8_Fallback ==
    IsRecommend =>
        /\ (\E i \in DOMAIN res.recommendations :
                res.recommendations[i].type = "study")
              <=> ~LongRuleFires /\ ~StressRuleFires
        /\ ~LongRuleFires /\ ~StressRuleFires => res.recommendations = FallbackTips
        /\ MySessions(res.user_id) = {} /\ MyWellness(res.user_id) = {}
              => res.recommendations = FallbackTips

C8_Witness ==
    /\ IsRecommend
    /\ res.recent_sessions # {}
    /\ res.recent_wellness # {}
    /\ res.recommendations = FallbackTips

\* C9: the high-stress tip is emitted iff the user has a wellness entry and
\* the mean stress of the (up to 5) most recent entries is above 7.
C9_HighStress ==
    IsRecommend =>
        /\ IsMostRecent(res.recent_wellness, MyWellness(res.user_id), 5)
        /\ Emitted([type |-> "wellness", title |-> "High Stress Detected",
                     priority |-> "high"])
              <=> /\ MyWellness(res.user_id) # {}
                  /\ SumStress(res.recent_wellness)
                        > 7 * Cardinality(res.recent_wellness)

C9_Witness ==
    /\ IsRecommend
    /\ Cardinality(MyWellness(res.user_id)) = 6
    /\ SumStress(MyWellness(res.user_id)) <= 7 * 6
    /\ Emitted(StressTip)

\* C10: the take-regular-breaks tip is emitted iff the user has a study
\* session and the mean duration of the (up to 5) most recent is above 60.
C10_LongSessions ==
    IsRecommend =>
        /\ IsMostRecent(res.recent_sessions, MySessions(res.user_id), 5)
        /\ Emitted([type |-> "break", title |-> "Take Regular Breaks",
                     priority |-> "high"])
              <=> /\ MySessions(res.user_id) # {}
                  /\ SumDuration(res.recent_sessions)
                        > 60 * Cardinality(res.recent_sessions)

C10_Witness ==
    /\ IsRecommend
    /\ Cardinality(MySessions(res.user_id)) = 6
    /\ SumDuration(MySessions(res.user_id)) <= 60 * 6
    /\ Emitted(BreakTip)

(***************************************************************************)
(* The sentiment stored with a study session.                              *)
(***************************************************************************)
IsNewStudySession == res.op = "new_study_session"
IsLogged == IsNewStudySession /\ res.stored
LoggedRows == {r \in sessions : r.id = res.id}
LoggedScores == {r.sentiment_score : r \in LoggedRows}

\* C11: the signed sentiment score stored for a study session is 0.0 when
\* the notes are empty or absent or the classifier is unavailable, and the
\* classifier is not invoked in these cases.
C11_NeutralIsZero ==
    IsLogged /\ (res.notes = "" \/ res.cls.kind = "unavailable")
        => LoggedScores = {Zero} /\ ~res.invoked

\* C12: when the classifier returns (label, confidence) for non-empty
\* notes, the stored signed score is +confidence for POSITIVE and exactly
\* -confidence for any other label, so it lies in [-1, 1] and its magnitude
\* is the confidence.
C12_SignedConfidence ==
    IsLogged /\ res.notes # "" /\ res.cls.kind = "returns"
        => /\ LoggedScores =
                {IF res.cls.label = "POSITIVE"
                 THEN res.cls.score ELSE RNeg(res.cls.score)}
           /\ \A x \in LoggedScores :
                 /\ RLe(RInt(0 - 1), x) /\ RLe(x, RInt(1))
                 /\ Rat(Abs(x.n), x.d) = res.cls.score

\* C13: an exception of the classifier is caught and mapped to the neutral
\* result, signed 0.0, and a form with a subject and a duration > 0 is
\* stored whether the classifier succeeds, fails or is unavailable.
C13_ClassifierNeverBlocks ==
    IsNewStudySession
        => /\ res.subject # "" /\ res.duration > 0
                => \E r \in LoggedRows :
                      /\ r.subject = res.subject
                      /\ r.duration = res.duration
                      /\ r.user_id = res.user_id
           /\ IsLogged /\ res.notes # "" /\ res.cls.kind = "raises"
                => LoggedScores = {Zero}

(***************************************************************************)
(* Asking twice.                                                           *)
(***************************************************************************)
AskedTwice == res.op \in {"analytics_twice", "score_twice", "recommend_twice"}

CallOps == {"analytics", "score", "recommend"}

\* C15: a call of get_study_analytics, calculate_productivity_score or
\* generate_study_recommendations leaves the sets of StudySession and
\* WellnessEntry records as they were.
C15_ReadOnly ==
    [][res'.op \in CallOps => sessions' = sessions /\ wellness' = wellness]_vars

C15_Witness ==
    /\ res.op \in CallOps
    /\ MySessions(res.user_id) # {}
    /\ MyWellness(res.user_id) # {}
    /\ now > 0

\* C16: the results for a user are the same before and after another user
\* creates, changes or deletes a record.
C16_Isolation ==
    AskedTwice /\ res.writer \notin {0, res.user_id} => res.second = res.first

C16_Witness ==
    /\ res.op = "score_twice"
    /\ res.writer # 0
    /\ res.writer # res.user_id
    /\ \E r \in sessions : r.user_id = res.writer /\ r.created_at = now
    /\ res.first.study_time > 0
    /\ res.second = res.first

(***************************************************************************)
(* The session routes.                                                     *)
(***************************************************************************)
WriteRouteOps ==
    {"new_study_session", "add_session", "api_create_session",
     "api_update_session"}

\* the request asked for a duration that is not positive
AskedNonPositive ==
    /\ res.op \in WriteRouteOps
    /\ IF res.op = "new_study_session"
       THEN res.duration <= 0
       ELSE res.has_duration /\ res.duration <= 0

WasRejected ==
    IF res.op = "new_study_session" THEN ~res.stored ELSE res.status = "rejected"

\* C21: every study session in the store has a duration of at least 1
\* minute, and a creating or updating request with a non-positive duration
\* is rejected.
C21_DurationAtLeastOne ==
    /\ \A r \in sessions : r.duration >= 1
    /\ AskedNonPositive => WasRejected

(***************************************************************************)
(* The score before and after one more session.                            *)
(***************************************************************************)
ScoredAroundOwnWrite == res.op = "score_twice" /\ res.writer = res.user_id

\* min(minutes / 60, 20) / 20 * 50
VolumeOf(minutes) ==
    Rat(50 * (IF minutes < 20 * 60 THEN minutes ELSE 20 * 60), 20 * 60)

\* C22: the volume sub-score is min(total_minutes/60, 20)/20*50 over the
\* user's sessions of the last 7 days; logging more study time never lowers
\* it, it never exceeds 50, and once the total is 20 hours or more it does
\* not change.
C22_Volume ==
    ScoredAroundOwnWrite =>
        /\ res.second.study_time
              = SumDuration(InLookback(sessions, res.user_id))
        /\ res.first.study_score = VolumeOf(res.first.study_time)
        /\ res.second.study_score = VolumeOf(res.second.study_time)
        /\ res.second.study_time > res.first.study_time
        /\ RLe(res.first.study_score, res.second.study_score)
        /\ RLe(res.second.study_score, RInt(50))
        /\ res.first.study_time >= 20 * 60
              => res.second.study_score = res.first.study_score

C22_Witness ==
    /\ ScoredAroundOwnWrite
    /\ res.first.study_time >= 20 * 60
    /\ res.second.study_time > res.first.study_time
    /\ res.second.study_score = RInt(50)
    /\ res.first.study_score = RInt(50)

\* C26: one more session on a day of the window that already has a session
\* leaves the consistency sub-score as it was.
C26_DaysNotEvents ==
    ScoredAroundOwnWrite /\ Cardinality(OfToday(res.user_id)) >= 2
        => /\ res.second.study_days = res.first.study_days
           /\ res.second.consistency_score = res.first.consistency_score

C26_Witness ==
    /\ ScoredAroundOwnWrite
    /\ Cardinality(OfToday(res.user_id)) >= 2
    /\ res.first.study_days >= 2
    /\ res.second.consistency_score = res.first.consistency_score

\* C23: the wellbeing sub-score is (1 - (avg_stress - 1)/9)*20 with
\* avg_stress the mean stress_level of the user's wellness entries of the
\* last 7 days, and 5 when there is none; a mean of 1 gives 20 points and a
\* mean of 10 gives 0.
C23_Wellbeing ==
    IsScore =>
        LET rows == InLookback(wellness, res.user_id)
            avg_stress == IF rows = {}
                          THEN RInt(5)
                          ELSE Rat(SumStress(rows), Cardinality(rows))
        IN  /\ res.avg_mood = avg_stress
            /\ res.mood_score =
                  RMul(RSub(RInt(1), RDivInt(RSub(avg_stress, RInt(1)), 9)),
                       RInt(20))
            /\ avg_stress = RInt(1) => res.mood_score = RInt(20)
            /\ avg_stress = RInt(10) => res.mood_score = Zero

C23_Witness ==
    /\ IsScore
    /\ Cardinality(InLookback(wellness, res.user_id)) = 2
    /\ Cardinality(MyWellness(res.user_id)) = 3
    /\ res.avg_mood = Rat(11, 2)
    /\ res.mood_score = RInt(10)

(***************************************************************************)
(* The two rules of the recommendation engine together.                    *)
(***************************************************************************)
TakeRegularBreaks ==
    [type |-> "break", title |-> "Take Regular Breaks", priority |-> "high"]
HighStressDetected ==
    [type |-> "wellness", title |-> "High Stress Detected", priority |-> "high"]

\* C24: the two rules fire independently of each other; when both fire the
\* result is the break tip followed by the stress tip; the result always
\* has 1 or 2 recommendations and never a rule's tip next to a fallback tip.
C24_RulesIndependent ==
    IsRecommend =>
        /\ Len(res.recommendations) \in 1..2
        /\ Emitted(TakeRegularBreaks) <=> LongRuleFires
        /\ Emitted(HighStressDetected) <=> StressRuleFires
        /\ LongRuleFires /\ StressRuleFires
              => res.recommendations = <<TakeRegularBreaks, HighStressDetected>>
        /\ (Emitted(TakeRegularBreaks) \/ Emitted(HighStressDetected))
              => \A k \in DOMAIN FallbackTips : ~Emitted(FallbackTips[k])

C24_Witness ==
    /\ IsRecommend
    /\ LongRuleFires
    /\ StressRuleFires
    /\ res.recommendations = <<TakeRegularBreaks, HighStressDetected>>

\* C25: the recommendations of a user are the same before and after a
\* record older than the fifth most recent of its kind is added, changed
\* or deleted, and before and after time has passed.
C25_OldRecordsIgnored ==
    res.op = "recommend_twice" => res.second = res.first

C25_Witness ==
    /\ res.op = "recommend_twice"
    /\ res.writer = res.user_id
    /\ Cardinality(MySessions(res.user_id)) > RecentLimit
    /\ res.second.recommendations = <<TakeRegularBreaks>>
    /\ SumDuration(MySessions(res.user_id))
          <= LongSessionMinutes * Cardinality(MySessions(res.user_id))

(***************************************************************************)
(* The routes that take the id of a study session.                         *)
(***************************************************************************)
ByIdOps ==
    {"view_study_session", "delete_study_session", "api_get_session",
     "api_update_session", "api_delete_session"}

\* C27: a by-id operation reads, changes and removes only the row of that
\* id that belongs to the logged-in user; when there is no such row it
\* answers not-found and leaves the store as it was.
C27_SessionOwnership ==
    [][res'.op \in ByIdOps =>
         LET u == res'.user_id
             mine == {r \in sessions : r.id = res'.id /\ r.user_id = u}
         IN  /\ res'.rows = mine
             /\ \A r \in sessions \ sessions' : r \in mine
             /\ \A r \in sessions' \ sessions :
                    \E o \in mine : o \notin sessions' /\ r.id = o.id
                                    /\ r.user_id = u
             /\ (res'.status = "not_found") = (mine = {})
             /\ mine = {} => /\ sessions' = sessions
                             /\ wellness' = wellness]_vars

C27_Witness ==
    /\ res.op \in ByIdOps
    /\ res.status = "not_found"
    /\ \E r \in sessions : r.id = res.id /\ r.user_id # res.user_id

(***************************************************************************)
(* The statistics of the list page and of the stats endpoint.              *)
(***************************************************************************)
StatsOps == {"study_sessions", "api_get_session_stats"}

\* C28: the list page and the stats endpoint both show the user's total
\* study time T as T div 60 hours and T mod 60 minutes, so that
\* hours * 60 + minutes = T and 0 <= minutes < 60.
C28_HoursAndMinutes ==
    res.op \in StatsOps =>
        LET T == SumDuration(MySessions(res.user_id))
        IN  /\ res.total_hours = T \div 60
            /\ res.total_minutes = T % 60
            /\ res.total_hours * 60 + res.total_minutes = T
            /\ res.total_minutes \in 0..59
====
